---- MODULE Spec2Model ----
(***************************************************************************)
(* The account transaction pipeline of Go-Enterprise-APIs.                 *)
(*                                                                         *)
(* The repository holds three CEPAccount implementations:                  *)
(*   "root"     package circular_enterprise_apis  (src/unnamed/part_010)   *)
(*   "services" package services                  (src/unnamed/part_004)   *)
(*   "lib"      package cepaccount                (src/unnamed/part_005)   *)
(* The variable impl says which one the account under test is an instance  *)
(* of; every operation is translated per implementation.                   *)
(*                                                                         *)
(* Go strings whose characters the code inspects (addresses, keys, hex,    *)
(* transaction IDs) are sequences of one-character strings.  Messages and  *)
(* URLs that are only stored and compared are TLA+ strings.                *)
(***************************************************************************)
EXTENDS Integers, Sequences, FiniteSets, TLC

VARIABLES impl, acc, last, arg, pc, inflight, loaded, poll, codec, cert

vars == <<impl, acc, last, arg, pc, inflight, loaded, poll, codec, cert>>

----------------------------------------------------------------------------
(* Bounds of the model                                                     *)

\* SubmitCertificate is not started once the nonce has reached MaxNonce.
MaxNonce == 2
\* The gateway reports wallet nonces 0 .. MaxServerNonce.
MaxServerNonce == 1
\* Number of goroutines that may call SubmitCertificate at the same time.
MaxThreads == 2
\* A polling call makes at most MaxPolls queries.
MaxPolls == 2
\* The polling loop followed step by step is given timeouts 0 .. MaxTimeout
\* and intervals 0 .. MaxInterval (seconds); its queries are counted up to
\* MaxQueries.
MaxTimeout == 2
MaxInterval == 2
MaxQueries == 3
\* The texts that are hex-encoded and decoded again have at most MaxTextLen
\* characters.
MaxTextLen == 3

----------------------------------------------------------------------------
(* Strings                                                                 *)

Rep(c, n) == [i \in 1..n |-> c]

HexDigitsLower == {"0","1","2","3","4","5","6","7","8","9","a","b","c","d","e","f"}
HexDigitsUpper == {"A","B","C","D","E","F"}

\* strings.ToLower on one character (only A-F matter for hex strings; other
\* letters are lowered as well).
LowerChar(c) ==
    CASE c = "A" -> "a" [] c = "B" -> "b" [] c = "C" -> "c" [] c = "D" -> "d"
      [] c = "E" -> "e" [] c = "F" -> "f" [] c = "X" -> "x"
      [] OTHER -> c

ToLower(s) == [i \in 1..Len(s) |-> LowerChar(s[i])]

HasPrefix0x(s) == Len(s) >= 2 /\ s[1] = "0" /\ s[2] \in {"x", "X"}

\* utils.HexFix: drop a leading 0x/0X, lower-case, left-pad to even length.
HexFix(hexStr) ==
    IF hexStr = <<>> THEN <<>>
    ELSE LET stripped == IF HasPrefix0x(hexStr)
                         THEN SubSeq(hexStr, 3, Len(hexStr)) ELSE hexStr
             lowered  == ToLower(stripped)
         IN IF Len(lowered) % 2 # 0 THEN <<"0">> \o lowered ELSE lowered

\* The NUL character (the byte 0), which has no spelling in a TLA+ string.
NUL == "NUL"

\* The two upper-case hex digits of the ASCII characters the model uses.
AsciiHex ==
    NUL :> <<"0", "0">> @@ "\n" :> <<"0", "A">> @@
    " " :> <<"2", "0">> @@ "\"" :> <<"2", "2">> @@ "," :> <<"2", "C">> @@ "-" :> <<"2", "D">> @@
    "." :> <<"2", "E">> @@ "0" :> <<"3", "0">> @@ "1" :> <<"3", "1">> @@ "2" :> <<"3", "2">> @@
    "3" :> <<"3", "3">> @@ "4" :> <<"3", "4">> @@ "5" :> <<"3", "5">> @@ "6" :> <<"3", "6">> @@
    "7" :> <<"3", "7">> @@ "8" :> <<"3", "8">> @@ "9" :> <<"3", "9">> @@ ":" :> <<"3", "A">> @@
    "A" :> <<"4", "1">> @@ "B" :> <<"4", "2">> @@ "C" :> <<"4", "3">> @@ "D" :> <<"4", "4">> @@
    "E" :> <<"4", "5">> @@ "F" :> <<"4", "6">> @@ "G" :> <<"4", "7">> @@ "H" :> <<"4", "8">> @@
    "I" :> <<"4", "9">> @@ "J" :> <<"4", "A">> @@ "K" :> <<"4", "B">> @@ "L" :> <<"4", "C">> @@
    "M" :> <<"4", "D">> @@ "N" :> <<"4", "E">> @@ "O" :> <<"4", "F">> @@ "P" :> <<"5", "0">> @@
    "Q" :> <<"5", "1">> @@ "R" :> <<"5", "2">> @@ "S" :> <<"5", "3">> @@ "T" :> <<"5", "4">> @@
    "U" :> <<"5", "5">> @@ "V" :> <<"5", "6">> @@ "W" :> <<"5", "7">> @@ "X" :> <<"5", "8">> @@
    "Y" :> <<"5", "9">> @@ "Z" :> <<"5", "A">> @@ "_" :> <<"5", "F">> @@ "a" :> <<"6", "1">> @@
    "b" :> <<"6", "2">> @@ "c" :> <<"6", "3">> @@ "d" :> <<"6", "4">> @@ "e" :> <<"6", "5">> @@
    "f" :> <<"6", "6">> @@ "g" :> <<"6", "7">> @@ "h" :> <<"6", "8">> @@ "i" :> <<"6", "9">> @@
    "j" :> <<"6", "A">> @@ "k" :> <<"6", "B">> @@ "l" :> <<"6", "C">> @@ "m" :> <<"6", "D">> @@
    "n" :> <<"6", "E">> @@ "o" :> <<"6", "F">> @@ "p" :> <<"7", "0">> @@ "q" :> <<"7", "1">> @@
    "r" :> <<"7", "2">> @@ "s" :> <<"7", "3">> @@ "t" :> <<"7", "4">> @@ "u" :> <<"7", "5">> @@
    "v" :> <<"7", "6">> @@ "w" :> <<"7", "7">> @@ "x" :> <<"7", "8">> @@ "y" :> <<"7", "9">> @@
    "z" :> <<"7", "A">> @@ "{" :> <<"7", "B">> @@ "}" :> <<"7", "D">>

\* utils.StringToHex: upper-case hex of the bytes of s, two digits a byte.
StringToHex(s) ==
    [i \in 1..(2 * Len(s)) |-> AsciiHex[s[(i + 1) \div 2]][IF i % 2 = 1 THEN 1 ELSE 2]]

\* hex.DecodeString: fails on an odd length and on a character that is no
\* hex digit; otherwise every two digits, in either case, give one byte
\* ("?" stands for the bytes for which the model has no character).
HexDecode(h) ==
    IF Len(h) % 2 # 0 \/ ~(\A i \in 1..Len(h) : h[i] \in HexDigitsLower \cup HexDigitsUpper)
    THEN [err |-> TRUE, bytes |-> <<>>]
    ELSE [err |-> FALSE,
          bytes |-> [i \in 1..(Len(h) \div 2) |->
                        LET known == {c \in DOMAIN AsciiHex :
                                        ToLower(AsciiHex[c]) = ToLower(SubSeq(h, 2 * i - 1, 2 * i))}
                        IN  IF known = {} THEN "?" ELSE CHOOSE c \in known : TRUE]]

\* HexToString as it would be if it took a leading zero digit for padding
\* and dropped it.
Mut_HexToString_DropsLeadingZero(hexStr) ==
    LET stripped == IF hexStr # <<>> /\ hexStr[1] = "0" THEN Tail(hexStr) ELSE hexStr
        d == HexDecode(ToLower(stripped))
    IN  IF d.err THEN <<>> ELSE d.bytes

\* utils.HexToString: drop a leading 0x/0X, lower-case, decode; the empty
\* string when the decoding fails.
HexToString(hexStr) ==
    IF hexStr = <<>> THEN <<>>
    ELSE LET stripped == IF HasPrefix0x(hexStr)
                         THEN SubSeq(hexStr, 3, Len(hexStr)) ELSE hexStr
             d == HexDecode(ToLower(stripped))
         IN IF d.err THEN <<>> ELSE d.bytes

\* stringToHex of package circular: lower-case hex of the bytes of s.
stringToHex(s) == ToLower(StringToHex(s))

\* hexToString of package circular: drop a leading 0x/0X and decode, leaving
\* out the bytes that are zero; when the decoding fails, the bytes of the
\* pairs of digits that can be read, again without the zero bytes.
hexToString(h0) ==
    LET h == IF HasPrefix0x(h0) THEN SubSeq(h0, 3, Len(h0)) ELSE h0
        d == HexDecode(h)
        pair(i) == HexDecode(SubSeq(h, 2 * i - 1, 2 * i))
        salvaged == [i \in 1..(Len(h) \div 2) |->
                        IF pair(i).err THEN NUL ELSE pair(i).bytes[1]]
    IN  SelectSeq(IF d.err THEN salvaged ELSE d.bytes, LAMBDA c : c # NUL)

Digit(d) == CASE d = 0 -> "0" [] d = 1 -> "1" [] d = 2 -> "2" [] d = 3 -> "3"
              [] d = 4 -> "4" [] d = 5 -> "5" [] d = 6 -> "6" [] d = 7 -> "7"
              [] d = 8 -> "8" [] d = 9 -> "9"

RECURSIVE Itoa(_)
\* fmt.Sprintf("%d", n) for n >= 0.
Itoa(n) == IF n < 10 THEN <<Digit(n)>> ELSE Itoa(n \div 10) \o <<Digit(n % 10)>>

\* sha256.Sum256 followed by hex.EncodeToString, as an uninterpreted injective
\* function: the digest of s is the tagged text s.
Sha256Hex(s) == <<"#">> \o s

----------------------------------------------------------------------------
(* Program constants                                                       *)

Impls == {"root", "services", "lib"}

\* LibVersion, DefaultNAG, NetworkURL, DefaultChain of package
\* circular_enterprise_apis.
LibVersion == "1.0.13"
DefaultNAG == "https://nag.circularlabs.io/NAG.php?cep="
NetworkURL == "https://circularlabs.io/network/getNAG?network="
DefaultChain ==
    <<"0", "x", "8", "a", "2", "0", "b", "a", "a", "4", "0", "c", "4", "5", "d", "c",
      "5", "0", "5", "5", "a", "e", "b", "2", "6", "1", "9", "7", "c", "2", "0", "3",
      "e", "5", "7", "6", "e", "f", "3", "8", "9", "d", "9", "a", "c", "b", "1", "7",
      "1", "b", "d", "6", "2", "d", "a", "1", "1", "d", "c", "5", "a", "d", "7", "2",
      "b", "2">>

\* DEFAULT_NAG, DEFAULT_CHAIN and LIB_VERSION of the internal/utils packages
\* used by packages services and cepaccount.
DEFAULT_NAG == "https://nag.circular.io/"
DEFAULT_CHAIN == <<"C", "i", "r", "c", "u", "l", "a", "r">>
LIB_VERSION == "LIB_VERSION"

\* Default polling interval of NewCEPAccount.
DefaultIntervalSec == 2

\* Length of the hex body of an address and of a private key.
AddressHexLen == 40
PrivateKeyHexLen == 64

----------------------------------------------------------------------------
(* The account                                                             *)

\* The text of an error message is written to LastError and never read back
\* by the code; the model keeps of a message only whether it is empty, and
\* whether it says that the account is not open.
Text(msg) ==
    CASE msg = "" -> ""
      [] msg \in {"Account not open", "Account is not open"} -> "not open"
      [] OTHER -> "error"

\* The zero value of the CEPAccount struct.
ZeroAccount ==
    [Address |-> <<>>, PublicKey |-> <<>>, Info |-> "nil", CodeVersion |-> "",
     LastError |-> "", NAGURL |-> "", NetworkNode |-> "", Blockchain |-> <<>>,
     LatestTxID |-> <<>>, Nonce |-> 0, Data |-> {}, IntervalSec |-> 0,
     NetworkURL |-> ""]

Root_NewCEPAccount ==
    [ZeroAccount EXCEPT !.CodeVersion = LibVersion, !.NetworkURL = NetworkURL,
                        !.NAGURL = DefaultNAG, !.Blockchain = DefaultChain,
                        !.Nonce = 0, !.IntervalSec = DefaultIntervalSec]

Services_NewCEPAccount ==
    [ZeroAccount EXCEPT !.CodeVersion = LIB_VERSION, !.Data = {}]

Lib_NewCEPAccount ==
    [ZeroAccount EXCEPT !.CodeVersion = LIB_VERSION, !.NAGURL = DEFAULT_NAG,
                        !.Blockchain = DEFAULT_CHAIN, !.Data = {},
                        !.IntervalSec = DefaultIntervalSec]

NewCEPAccount(i) ==
    CASE i = "root"     -> Root_NewCEPAccount
      [] i = "services" -> Services_NewCEPAccount
      [] i = "lib"      -> Lib_NewCEPAccount

\* What a call gives back: the account after it, whether it reported success,
\* the type of the error value it returned ("nil" for none, "novalue" where
\* the method has no error result and reports through LastError only,
\* "untyped" for a plain fmt.Errorf error, "panic" for a run-time panic), and
\* whether it returned a non-nil response map.
Ret(a, ok, err, res) == [acc |-> a, ok |-> ok, err |-> err, res |-> res]

HexDigits == HexDigitsLower \cup HexDigitsUpper

IsHexString(s) == \A i \in 1..Len(s) : s[i] \in HexDigits

\* internal.IsValidAddress
IsValidAddress(address) ==
    /\ Len(address) >= 2 /\ address[1] = "0" /\ address[2] = "x"
    /\ Len(address) - 2 = AddressHexLen
    /\ IsHexString(SubSeq(address, 3, Len(address)))

\* Open as it would be if it also started the nonce afresh.
Mut_Open_ResetsNonce(a, address) ==
    IF address = <<>>
    THEN Ret([a EXCEPT !.LastError = Text("invalid address format")], FALSE, "novalue", FALSE)
    ELSE Ret([a EXCEPT !.Address = address, !.Nonce = 0], TRUE, "novalue", FALSE)

Root_Open(a, address) ==
    IF address = <<>>
    THEN Ret([a EXCEPT !.LastError = Text("invalid address format")], FALSE, "novalue", FALSE)
    ELSE Ret([a EXCEPT !.Address = address], TRUE, "novalue", FALSE)

Services_Open(a, accountAddress) ==
    IF ~IsValidAddress(accountAddress)
    THEN Ret([a EXCEPT !.LastError = Text("Invalid address format")], FALSE, "novalue", FALSE)
    ELSE Ret([a EXCEPT !.Address = accountAddress], TRUE, "novalue", FALSE)

\* Open as it would be if it also put nonce, latestTxID and data back to
\* their defaults.
Mut_Open_ResetsState(a, accountAddress) ==
    Ret([a EXCEPT !.Address = accountAddress, !.Nonce = 0, !.LatestTxID = <<>>,
                  !.Data = {}],
        TRUE, "novalue", FALSE)

Lib_Open(a, accountAddress) ==
    Ret([a EXCEPT !.Address = accountAddress], TRUE, "novalue", FALSE)

\* Close as it would be if it refused an account that is not open.
Mut_Close_RequiresOpen(a) ==
    IF a.Address = <<>>
    THEN Ret([a EXCEPT !.LastError = Text("Account not open")], FALSE, "novalue", FALSE)
    ELSE Ret([a EXCEPT !.Address = <<>>, !.PublicKey = <<>>, !.Info = "nil",
                       !.NAGURL = "", !.NetworkNode = "", !.Blockchain = <<>>,
                       !.LatestTxID = <<>>, !.Nonce = 0, !.IntervalSec = 0],
             TRUE, "novalue", FALSE)

Root_Close(a) ==
    Ret([a EXCEPT !.Address = <<>>, !.PublicKey = <<>>, !.Info = "nil",
                  !.NAGURL = "", !.NetworkNode = "", !.Blockchain = <<>>,
                  !.LatestTxID = <<>>, !.Nonce = 0, !.IntervalSec = 0],
        TRUE, "novalue", FALSE)

Services_Close(a) ==
    Ret([a EXCEPT !.Address = <<>>, !.PublicKey = <<>>, !.Info = "nil",
                  !.LastError = "", !.LatestTxID = <<>>, !.Data = {},
                  !.Nonce = 0],
        TRUE, "novalue", FALSE)

Lib_Close(a) ==
    Ret([a EXCEPT !.Address = <<>>, !.PublicKey = <<>>, !.Info = "nil",
                  !.LastError = "", !.NAGURL = DEFAULT_NAG, !.NetworkNode = "",
                  !.Blockchain = DEFAULT_CHAIN, !.LatestTxID = <<>>,
                  !.Data = {}, !.IntervalSec = DefaultIntervalSec, !.Nonce = 0],
        TRUE, "novalue", FALSE)

Root_SetBlockchain(a, chain) ==
    Ret([a EXCEPT !.Blockchain = chain], TRUE, "novalue", FALSE)

Lib_SetBlockchain(a, chain) ==
    Ret([a EXCEPT !.Blockchain = chain], TRUE, "novalue", FALSE)

Services_SetData(a, key) ==
    Ret([a EXCEPT !.Data = @ \cup {key}], TRUE, "novalue", FALSE)

Lib_SetData(a, key) ==
    Ret([a EXCEPT !.Data = @ \cup {key}], TRUE, "novalue", FALSE)

----------------------------------------------------------------------------
(* The gateway's answers                                                   *)

\* A JSON value as Go decodes it: absent (or null), a string, or a number.
JAbsent == [t |-> "absent", n |-> 0, s |-> <<>>]
JNum(n) == [t |-> "num", n |-> n, s |-> <<>>]
JStr(s) == [t |-> "string", n |-> 0, s |-> s]

\* The "Response" member: null/absent, a string, or an object with the
\* members the clients read.
RNull == [kind |-> "null", Nonce |-> JAbsent, TxID |-> JAbsent,
          Status |-> JAbsent, Message |-> JAbsent]
RString == [RNull EXCEPT !.kind = "string"]
RObject(nonce, txid, status, message) ==
    [kind |-> "object", Nonce |-> nonce, TxID |-> txid, Status |-> status,
     Message |-> message]

\* A response body: undecodable ("junk") or a JSON object with Result,
\* Response and the top-level message / error members.
JunkBody == [json |-> "junk", Result |-> JAbsent, Response |-> RNull,
             message |-> JAbsent, error |-> JAbsent]
Body(result, response) ==
    [json |-> "object", Result |-> result, Response |-> response,
     message |-> JAbsent, error |-> JAbsent]

\* What the transport gives: a transport failure ("fail"), a failure while
\* reading the body ("readfail"), or a status code with a body.
NetFail == [net |-> "fail", status |-> 0, body |-> JunkBody]
ReadFail == [net |-> "readfail", status |-> 200, body |-> JunkBody]
Http(status, body) == [net |-> "ok", status |-> status, body |-> body]

\* Transaction statuses.
Pending == <<"P", "e", "n", "d", "i", "n", "g">>
Confirmed == <<"C", "o", "n", "f", "i", "r", "m", "e", "d">>
Failed == <<"F", "a", "i", "l", "e", "d">>
Success == <<"S", "u", "c", "c", "e", "s", "s">>
Executed == <<"E", "x", "e", "c", "u", "t", "e", "d">>

TxA == <<"t", "x", "A">>
TxB == <<"t", "x", "B">>
Msg == <<"m">>

\* Answers to Circular_GetWalletNonce_.
NonceReplies ==
    {NetFail, ReadFail, Http(200, JunkBody),
     Http(500, Body(JNum(500), RString)),
     Http(200, Body(JNum(200), RObject(JAbsent, JAbsent, JAbsent, JAbsent))),
     Http(200, Body(JNum(200), RObject(JStr(Msg), JAbsent, JAbsent, JAbsent))),
     Http(200, Body(JNum(200), RNull)),
     Http(200, Body(JNum(200), RString)),
     Http(200, Body(JNum(400), RString)),
     Http(200, Body(JNum(400), RObject(JAbsent, JAbsent, JAbsent, JStr(Msg)))),
     Http(200, Body(JNum(400), RNull)),
     Http(200, Body(JNum(114), RString)),
     Http(200, Body(JNum(115), RString)),
     Http(200, Body(JAbsent, RObject(JNum(0), JAbsent, JAbsent, JAbsent))),
     Http(200, Body(JStr(Msg), RObject(JNum(0), JAbsent, JAbsent, JAbsent)))}
    \cup {Http(st, Body(JNum(200), RObject(JNum(n), JAbsent, JAbsent, JAbsent))) :
            st \in {200, 201}, n \in 0..MaxServerNonce}

\* Answers to Circular_AddTransaction_ / Circular_SubmitCertificate_.
SubmitReplies ==
    {NetFail, ReadFail, Http(200, JunkBody),
     Http(500, Body(JNum(500), RNull)),
     Http(200, Body(JNum(200), RObject(JAbsent, JAbsent, JAbsent, JStr(Msg)))),
     Http(200, Body(JNum(200), RString)),
     Http(200, Body(JNum(500), RString)),
     Http(200, Body(JNum(500), RObject(JAbsent, JAbsent, JAbsent, JStr(Msg)))),
     Http(200, Body(JAbsent, RObject(JAbsent, JStr(TxA), JAbsent, JAbsent)))}
    \cup {Http(st, Body(JNum(200), RObject(JAbsent, JStr(tx), JAbsent, JStr(Msg)))) :
            st \in {200, 201}, tx \in {TxA, TxB}}

\* A request URL without a scheme (the gateway URL is empty) cannot be sent:
\* the HTTP client fails before anything reaches the network.
Transport(nagURL, h) == IF nagURL = "" THEN NetFail ELSE h

\* internal.PostJSON: the body and the error it returns.
PostJSON(h) ==
    CASE h.net = "fail" -> [body |-> JunkBody, hasBody |-> FALSE, err |-> "NetworkError",
                            statusCode |-> 0, message |-> "cause"]
      [] h.net = "readfail" -> [body |-> JunkBody, hasBody |-> FALSE, err |-> "untyped",
                                statusCode |-> 0, message |-> "read"]
      [] h.net = "ok" /\ (h.status < 200 \/ h.status >= 300) ->
            [body |-> h.body, hasBody |-> TRUE, err |-> "APIError",
             statusCode |-> h.status,
             message |-> IF h.body.json = "object" /\ h.body.message.t = "string"
                         THEN "message"
                         ELSE IF h.body.json = "object" /\ h.body.error.t = "string"
                              THEN "error" ELSE "HTTP status code"]
      [] OTHER -> [body |-> h.body, hasBody |-> TRUE, err |-> "nil",
                   statusCode |-> h.status, message |-> ""]

\* fmt.Errorf("...: %w", err): a plain error whose chain holds err.
Wrapped(err) ==
    CASE err = "NetworkError" -> "wrapped NetworkError"
      [] err = "APIError" -> "wrapped APIError"
      [] err = "InvalidResponseError" -> "wrapped InvalidResponseError"
      [] OTHER -> err

\* result["Result"].(float64) succeeded and the value is 200.
ResultIs200(body) == body.Result.t = "num" /\ body.Result.n = 200

----------------------------------------------------------------------------
(* UpdateAccount                                                           *)

\* Decoding the Response member into struct{Nonce int}: fails on a string and
\* on a Nonce of the wrong type; null and a missing Nonce leave the zero value.
Root_DecodeNonce(response) ==
    CASE response.kind = "string" -> [ok |-> FALSE, nonce |-> 0]
      [] response.kind = "null" -> [ok |-> TRUE, nonce |-> 0]
      [] response.kind = "object" /\ response.Nonce.t = "string" -> [ok |-> FALSE, nonce |-> 0]
      [] response.kind = "object" /\ response.Nonce.t = "absent" -> [ok |-> TRUE, nonce |-> 0]
      [] OTHER -> [ok |-> TRUE, nonce |-> response.Nonce.n]

Root_UpdateAccount(a, reply) ==
    LET h == Transport(a.NAGURL, reply)
        fail(msg) == Ret([a EXCEPT !.LastError = Text(msg)], FALSE, "novalue", FALSE)
    IN  IF a.Address = <<>> THEN fail("Account not open")
        ELSE IF h.net = "fail" THEN fail("http request failed")
        ELSE IF h.net = "readfail" THEN fail("failed to read response body")
        ELSE IF h.status # 200 THEN fail("network request failed with status")
        ELSE IF h.body.json # "object" \/ h.body.Result.t = "string"
             THEN fail("failed to decode response body")
        ELSE LET result == IF h.body.Result.t = "num" THEN h.body.Result.n ELSE 0
                 dec == Root_DecodeNonce(h.body.Response)
             IN CASE result = 200 ->
                       IF ~dec.ok THEN fail("failed to decode nonce response")
                       ELSE Ret([a EXCEPT !.Nonce = dec.nonce + 1], TRUE, "novalue", FALSE)
                  [] result = 114 -> fail("Rejected: Invalid Blockchain")
                  [] result = 115 -> fail("Rejected: Insufficient balance")
                  [] OTHER ->
                       IF h.body.Response.kind = "string"
                       THEN fail("failed to update account: errMsg")
                       ELSE fail("failed to update account: unknown error response")

Services_UpdateAccount(a, nagURL, reply) ==
    LET p == PostJSON(Transport(nagURL, reply))
        fail(msg, err) == Ret([a EXCEPT !.LastError = Text(msg)], FALSE, err, FALSE)
    IN  IF p.err # "nil" THEN fail("Failed to update account: err", Wrapped(p.err))
        ELSE IF p.body.json # "object"
             THEN fail("Failed to update account: could not parse JSON response",
                       "InvalidResponseError")
        ELSE IF ~ResultIs200(p.body)
             THEN IF p.body.Response.kind # "object"
                  THEN fail("Failed to update account: Invalid response format or error result",
                            "panic")
                  ELSE fail("Failed to update account: Invalid response format or error result",
                            "APIError")
        ELSE IF p.body.Response.kind = "object" /\ p.body.Response.Nonce.t = "num"
             THEN Ret([a EXCEPT !.Nonce = p.body.Response.Nonce.n + 1], TRUE, "nil", FALSE)
        ELSE fail("Failed to update account: Invalid response format or missing Nonce field",
                  "InvalidResponseError")

\* UpdateAccount as it would be if it stored the gateway's nonce as it is.
Mut_UpdateAccount_NoIncrement(a, reply) ==
    LET h == Transport(a.NAGURL, reply)
    IN  IF /\ h.net = "ok" /\ h.body.json = "object" /\ ResultIs200(h.body)
           /\ h.body.Response.kind = "object" /\ h.body.Response.Nonce.t = "num"
        THEN Ret([a EXCEPT !.Nonce = h.body.Response.Nonce.n], TRUE, "novalue", FALSE)
        ELSE Ret([a EXCEPT !.LastError = Text("Failed to update account")],
                 FALSE, "novalue", FALSE)

Lib_UpdateAccount(a, reply) ==
    LET h == Transport(a.NAGURL, reply)
        fail(msg) == Ret([a EXCEPT !.LastError = Text(msg)], FALSE, "novalue", FALSE)
    IN  IF h.net = "fail" THEN fail("Failed to update account: network error")
        ELSE IF h.net = "readfail"
             THEN fail("Failed to update account: could not read response body")
        ELSE IF h.body.json # "object"
             THEN fail("Failed to update account: could not parse JSON response")
        ELSE IF ~ResultIs200(h.body)
             THEN fail("Failed to update account: Invalid response format or error result")
        ELSE IF h.body.Response.kind = "object" /\ h.body.Response.Nonce.t = "num"
             THEN Ret([a EXCEPT !.Nonce = h.body.Response.Nonce.n + 1], TRUE, "novalue", FALSE)
        ELSE fail("Failed to update account: Invalid response format or missing Nonce field")

----------------------------------------------------------------------------
(* SubmitCertificate                                                       *)

ActionJSONHead ==
    <<"{", "\"", "A", "c", "t", "i", "o", "n", "\"", ":", "\"", "C", "P", "_", "C",
      "E", "R", "T", "I", "F", "I", "C", "A", "T", "E", "\"", ",", "\"", "D", "a",
      "t", "a", "\"", ":", "\"">>
ActionJSONTail == <<"\"", "}">>

\* json.Marshal of {"Action": "CP_CERTIFICATE", "Data": StringToHex(pdata)},
\* hex-encoded.
PayloadHex(pdata) ==
    StringToHex(ActionJSONHead \o StringToHex(pdata) \o ActionJSONTail)

\* The text the root package digests into the transaction ID.
StrToHash(blockchain, address, payload, nonce, timestamp) ==
    HexFix(blockchain) \o HexFix(address) \o HexFix(address) \o payload
        \o Itoa(nonce) \o timestamp

TransactionID(blockchain, address, payload, nonce, timestamp) ==
    Sha256Hex(StrToHash(blockchain, address, payload, nonce, timestamp))

\* internal.IsValidPrivateKey
IsValidPrivateKey(privateKey) ==
    LET hexPart == IF Len(privateKey) >= 2 /\ privateKey[1] = "0" /\ privateKey[2] = "x"
                   THEN SubSeq(privateKey, 3, Len(privateKey)) ELSE privateKey
    IN  /\ privateKey # <<>>
        /\ Len(hexPart) = PrivateKeyHexLen
        /\ IsHexString(hexPart)
        /\ \A c \in {"0", "f", "F", "1", "a", "A", "9"} :
              hexPart # Rep(c, PrivateKeyHexLen)

\* internal.GetPublicKey / getPublicKey: "pubkey_for_" + privateKey.
GetPublicKey(privateKey) ==
    <<"p", "u", "b", "k", "e", "y", "_", "f", "o", "r", "_">> \o privateKey

\* The request a SubmitCertificate call has built (sent = FALSE: none): the
\* gateway URL it goes to, the transaction ID and nonce it carries, the
\* previousTxID of its certificate, and what the signature was computed over.
NoReq ==
    [sent |-> FALSE, nagURL |-> "", ID |-> <<>>, Nonce |-> 0, SigOver |-> "",
     PreviousTxID |-> <<>>]

\* The first half of a call: either it fails before anything is sent
\* (failed = TRUE, with the account and error it returns), or it has built
\* the request req from the account as it is now.
Built(a, failed, err, req) == [acc |-> a, failed |-> failed, err |-> err, req |-> req]

\* signData fails when the key is not a hex string.
Root_SignDataFails(privateKeyHex) == ~IsHexString(HexFix(privateKeyHex))

Root_SubmitBuild(a, pdata, privateKeyHex, timestamp) ==
    IF a.Address = <<>>
    THEN Built([a EXCEPT !.LastError = Text("Account is not open")], TRUE, "novalue", NoReq)
    ELSE LET payload == PayloadHex(pdata)
             id == TransactionID(a.Blockchain, a.Address, payload, a.Nonce, timestamp)
         IN IF Root_SignDataFails(privateKeyHex)
            THEN Built([a EXCEPT !.LastError = Text("failed to sign data")], TRUE, "novalue", NoReq)
            ELSE Built(a, FALSE, "novalue",
                       [sent |-> TRUE, nagURL |-> a.NAGURL, ID |-> id,
                        Nonce |-> a.Nonce, SigOver |-> "sha256(ID hex)",
                        PreviousTxID |-> <<>>])

\* The second half as it would be if the account were updated as soon as a
\* body has been decoded, before its Result is looked at.
Mut_SubmitFinish_UpdatesFirst(a, req, reply) ==
    LET h == Transport(req.nagURL, reply)
        b == [a EXCEPT !.LatestTxID = req.ID, !.Nonce = @ + 1]
    IN  IF h.net # "ok" \/ h.status # 200 \/ h.body.json # "object"
        THEN Ret([a EXCEPT !.LastError = Text("failed to submit certificate")],
                 FALSE, "novalue", FALSE)
        ELSE IF ResultIs200(h.body) THEN Ret(b, TRUE, "novalue", FALSE)
        ELSE Ret([b EXCEPT !.LastError = Text("certificate submission failed")],
                 FALSE, "novalue", FALSE)

\* The second half: the answer to the request req is handled on the account
\* as it is now.
Root_SubmitFinish(a, req, reply) ==
    LET h == Transport(req.nagURL, reply)
        fail(msg) == Ret([a EXCEPT !.LastError = Text(msg)], FALSE, "novalue", FALSE)
    IN  IF h.net = "fail" THEN fail("failed to submit certificate")
        ELSE IF h.net = "readfail" THEN fail("failed to read response body")
        ELSE IF h.status # 200 THEN fail("network returned an error")
        ELSE IF h.body.json # "object" THEN fail("failed to decode response JSON")
        ELSE IF ResultIs200(h.body)
             THEN Ret([a EXCEPT !.LatestTxID = req.ID, !.Nonce = @ + 1],
                      TRUE, "novalue", FALSE)
        ELSE IF h.body.Response.kind = "string"
             THEN fail("certificate submission failed: errMsg")
        ELSE fail("certificate submission failed with non-200 result code")

Services_SubmitBuild(a, data, privateKey, nagURL, blockchain, timestamp) ==
    IF ~IsValidPrivateKey(privateKey)
    THEN Built([a EXCEPT !.LastError = Text("Signing failed")], TRUE, "untyped", NoReq)
    ELSE LET pubKey == GetPublicKey(privateKey)
         IN Built([a EXCEPT !.PublicKey = pubKey], FALSE, "nil",
                  [sent |-> TRUE, nagURL |-> nagURL, ID |-> <<>>,
                   Nonce |-> a.Nonce, SigOver |-> "sha256(TxPayload)",
                   PreviousTxID |-> a.LatestTxID])

Services_SubmitFinish(a, req, reply) ==
    LET p == PostJSON(Transport(req.nagURL, reply))
        fail(msg, err, res) == Ret([a EXCEPT !.LastError = Text(msg)], FALSE, err, res)
    IN  IF p.err # "nil"
        THEN fail("Transaction submission failed", Wrapped(p.err), FALSE)
        ELSE IF p.body.json # "object"
             THEN fail("Failed to parse JSON response", "InvalidResponseError", FALSE)
        ELSE IF ~ResultIs200(p.body)
             THEN fail("Certificate submission failed", "APIError", TRUE)
        ELSE IF p.body.Response.kind = "object" /\ p.body.Response.TxID.t = "string"
             THEN Ret([a EXCEPT !.LatestTxID = p.body.Response.TxID.s, !.Nonce = @ + 1],
                      TRUE, "nil", TRUE)
        ELSE Ret(a, TRUE, "nil", TRUE)

Lib_SubmitBuild(a, data, privateKey, timestamp) ==
    LET pubKey == GetPublicKey(privateKey)
    IN Built([a EXCEPT !.PublicKey = pubKey], FALSE, "nil",
             [sent |-> TRUE, nagURL |-> a.NAGURL, ID |-> <<>>,
              Nonce |-> a.Nonce, SigOver |-> "sha256(TxPayload)",
              PreviousTxID |-> a.LatestTxID])

\* The second half as it would be if a rejected submission gave back the
\* error without the response map.
Mut_SubmitFinish_DropsResponse(a, req, reply) ==
    LET h == Transport(req.nagURL, reply)
    IN  IF h.net = "ok" /\ h.body.json = "object" /\ ResultIs200(h.body)
        THEN IF h.body.Response.kind = "object" /\ h.body.Response.TxID.t = "string"
             THEN Ret([a EXCEPT !.LatestTxID = h.body.Response.TxID.s, !.Nonce = @ + 1],
                      TRUE, "nil", TRUE)
             ELSE Ret(a, TRUE, "nil", TRUE)
        ELSE Ret([a EXCEPT !.LastError = Text("Certificate submission failed")],
                 FALSE, "untyped", FALSE)

Lib_SubmitFinish(a, req, reply) ==
    LET h == Transport(req.nagURL, reply)
        fail(msg, res) == Ret([a EXCEPT !.LastError = Text(msg)], FALSE, "untyped", res)
    IN  IF h.net = "fail" THEN fail("Failed to submit certificate", FALSE)
        ELSE IF h.net = "readfail" THEN fail("Failed to read response body", FALSE)
        ELSE IF h.body.json # "object" THEN fail("Failed to parse JSON response", FALSE)
        ELSE IF ~ResultIs200(h.body) THEN fail("Certificate submission failed", TRUE)
        ELSE IF h.body.Response.kind = "object" /\ h.body.Response.TxID.t = "string"
             THEN Ret([a EXCEPT !.LatestTxID = h.body.Response.TxID.s, !.Nonce = @ + 1],
                      TRUE, "nil", TRUE)
        ELSE Ret(a, TRUE, "nil", TRUE)

----------------------------------------------------------------------------
(* Queries                                                                 *)

\* What getTransactionByID hands back: an error, or the decoded body.
Root_getTransactionByID(a, reply) ==
    LET h == Transport(a.NAGURL, reply)
    IN  IF a.NAGURL = "" THEN [err |-> TRUE, data |-> JunkBody]
        ELSE IF h.net # "ok" THEN [err |-> TRUE, data |-> JunkBody]
        ELSE IF h.status # 200 THEN [err |-> TRUE, data |-> JunkBody]
        ELSE IF h.body.json # "object" THEN [err |-> TRUE, data |-> JunkBody]
        ELSE [err |-> FALSE, data |-> h.body]

Root_GetTransaction(a, blockID, transactionID, reply) ==
    LET fail(msg) == Ret([a EXCEPT !.LastError = Text(msg)], FALSE, "novalue", FALSE)
    IN  IF blockID = "" THEN fail("blockID cannot be empty")
        ELSE IF blockID \notin {"0", "1"} THEN fail("invalid blockID")
        ELSE LET q == Root_getTransactionByID(a, reply)
             IN IF q.err THEN fail("failed to get transaction by ID")
                ELSE Ret(a, TRUE, "novalue", TRUE)

\* data["Result"] is 200 and Response.Status is a string other than "Pending".
Root_Finalized(data) ==
    /\ ResultIs200(data)
    /\ data.Response.kind = "object"
    /\ data.Response.Status.t = "string"
    /\ data.Response.Status.s # Pending

RECURSIVE Root_Poll(_, _)
\* The polling loop: replies holds the answers to the queries the ticker
\* starts before the deadline passes, in order.
Root_Poll(a, replies) ==
    IF replies = <<>>
    THEN Ret([a EXCEPT !.LastError =
                  Text("timeout exceeded while waiting for transaction outcome")],
             FALSE, "novalue", FALSE)
    ELSE LET q == Root_getTransactionByID(a, Head(replies))
         IN IF ~q.err /\ Root_Finalized(q.data)
            THEN Ret(a, TRUE, "novalue", TRUE)
            ELSE Root_Poll(a, Tail(replies))

\* time.NewTicker panics on an interval that is not positive.
Root_GetTransactionOutcome(a, txID, timeoutSec, intervalSec, replies) ==
    IF a.NAGURL = ""
    THEN Ret([a EXCEPT !.LastError = Text("network is not set")], FALSE, "novalue", FALSE)
    ELSE IF intervalSec <= 0 THEN Ret(a, FALSE, "panic", FALSE)
    ELSE Root_Poll(a, replies)


\* GetTransaction as it would be if it reported every Result other than 200
\* as an error.
Mut_GetTransaction_404IsError(a, block, txID, nagURL, reply) ==
    LET p == PostJSON(Transport(nagURL, reply))
    IN  IF p.err = "nil" /\ p.body.json = "object" /\ ResultIs200(p.body)
        THEN Ret(a, TRUE, "nil", TRUE)
        ELSE Ret([a EXCEPT !.LastError = Text("Failed to fetch transaction")],
                 FALSE, "APIError", p.err = "nil" /\ p.body.json = "object")

Services_GetTransaction(a, block, txID, nagURL, reply) ==
    LET p == PostJSON(Transport(nagURL, reply))
        fail(msg, err, res) == Ret([a EXCEPT !.LastError = Text(msg)], FALSE, err, res)
    IN  IF p.err # "nil" THEN fail("Failed to fetch transaction", Wrapped(p.err), FALSE)
        ELSE IF p.body.json # "object"
             THEN fail("Failed to fetch transaction: could not parse JSON response",
                       "InvalidResponseError", FALSE)
        ELSE IF p.body.Result.t = "num" /\ p.body.Result.n = 404
             THEN Ret([a EXCEPT !.LastError = ""], TRUE, "nil", TRUE)
        ELSE IF p.body.Result.t = "num" /\ p.body.Result.n = 400
             THEN fail("Failed to fetch transaction: Invalid block number", "APIError", TRUE)
        ELSE Ret(a, TRUE, "nil", TRUE)

\* GetTransactionOutcome as it would be if it took the transaction it finds
\* for the account's latest one.
Mut_GetTransactionOutcome_StoresTxID(a, txID, nagURL, reply) ==
    LET p == PostJSON(Transport(nagURL, reply))
    IN  IF p.err # "nil" \/ p.body.json # "object"
        THEN Ret([a EXCEPT !.LastError = Text("Failed to get transaction outcome")],
                 FALSE, "untyped", FALSE)
        ELSE Ret([a EXCEPT !.LatestTxID = txID], TRUE, "nil", TRUE)

Services_GetTransactionOutcome(a, txID, nagURL, reply) ==
    LET p == PostJSON(Transport(nagURL, reply))
        fail(msg, err) == Ret([a EXCEPT !.LastError = Text(msg)], FALSE, err, FALSE)
    IN  IF p.err # "nil" THEN fail("Failed to get transaction outcome", Wrapped(p.err))
        ELSE IF p.body.json # "object"
             THEN fail("Failed to parse JSON response", "InvalidResponseError")
        ELSE Ret(a, TRUE, "nil", TRUE)

\* outcome["Response"]["Status"] is one of the statuses in final.
StatusIn(body, final) ==
    /\ body.json = "object"
    /\ body.Response.kind = "object"
    /\ body.Response.Status.t = "string"
    /\ body.Response.Status.s \in final

RECURSIVE Services_WaitForTransactionOutcome(_, _, _, _)
\* replies holds the answers to the queries the loop makes until the elapsed
\* time is found to exceed the timeout; the loop always makes one query.
Services_WaitForTransactionOutcome(a, txID, nagURL, replies) ==
    LET q == Services_GetTransactionOutcome(a, txID, nagURL, Head(replies))
    IN  IF ~q.ok THEN Ret(q.acc, FALSE, Wrapped(q.err), FALSE)
        ELSE IF StatusIn(Transport(nagURL, Head(replies)).body,
                         {Confirmed, Failed, Success})
             THEN Ret(q.acc, TRUE, "nil", TRUE)
        ELSE IF Len(replies) = 1
             THEN Ret([q.acc EXCEPT !.LastError =
                           Text("Timeout waiting for transaction outcome")],
                      FALSE, "untyped", FALSE)
        ELSE Services_WaitForTransactionOutcome(q.acc, txID, nagURL, Tail(replies))

Lib_GetTransactionOutcome(a, txID, reply) ==
    LET h == Transport(a.NAGURL, reply)
        fail(msg) == Ret([a EXCEPT !.LastError = Text(msg)], FALSE, "untyped", FALSE)
    IN  IF h.net = "fail" THEN fail("Failed to get transaction outcome")
        ELSE IF h.net = "readfail" THEN fail("Failed to read response body")
        ELSE IF h.body.json # "object" THEN fail("Failed to parse JSON response")
        ELSE Ret(a, TRUE, "nil", TRUE)

RECURSIVE Lib_WaitForTransactionOutcome(_, _, _)
Lib_WaitForTransactionOutcome(a, txID, replies) ==
    LET q == Lib_GetTransactionOutcome(a, txID, Head(replies))
    IN  IF q.ok /\ StatusIn(Transport(a.NAGURL, Head(replies)).body,
                            {Confirmed, Failed})
        THEN Ret(q.acc, TRUE, "nil", TRUE)
        ELSE IF Len(replies) = 1
             THEN Ret([q.acc EXCEPT !.LastError =
                           Text("Timeout waiting for transaction outcome")],
                      FALSE, "untyped", FALSE)
        ELSE Lib_WaitForTransactionOutcome(q.acc, txID, Tail(replies))

----------------------------------------------------------------------------
(* Inputs                                                                  *)

MockAddress == <<"0", "x">> \o Rep("a", AddressHexLen)
ShortAddress == <<"0", "x">> \o Rep("a", AddressHexLen - 1)
\* Forty hex characters without the 0x prefix.
BareAddress == Rep("a", AddressHexLen)
AddressInputs == {<<>>, MockAddress, ShortAddress, BareAddress}

MockChain == <<"0", "x", "1">>
MockNAG == "http://mock.nag/"
NagInputs == {"", MockNAG}

MockPrivateKey == Rep("1", 2) \o Rep("2", PrivateKeyHexLen - 2)
NonHexKey == <<"0", "x", "z", "z">>
\* A key of the right length whose digits are all zero.
ZeroKey == Rep("0", PrivateKeyHexLen)
KeyInputs == {MockPrivateKey, NonHexKey, ZeroKey}

DataInputs == {<<"a">>}

\* utils.GetFormattedTimestamp: "YYYY:MM:DD-HH:MM:SS" read from the clock.
Timestamps ==
    {<<"2", "0", "2", "5", ":", "0", "1", ":", "0", "2", "-", "0", "3", ":", "0",
       "4", ":", "0", "5">>,
     <<"2", "0", "2", "5", ":", "0", "1", ":", "0", "2", "-", "0", "3", ":", "0",
       "4", ":", "0", "6">>}

Threads == 1..MaxThreads

\* Answers to Circular_GetTransactionbyID_ / Circular_GetTransactionOutcome_.
St(status) == Http(200, Body(JNum(200), RObject(JAbsent, JAbsent, JStr(status), JAbsent)))
\* {"Result": 404, "Response": null}: nothing found in the range of blocks.
NotFoundInRange == Http(200, Body(JNum(404), RNull))
QueryReplies ==
    {NetFail, Http(500, Body(JNum(500), RNull)), Http(200, JunkBody),
     St(Pending), St(Confirmed),
     NotFoundInRange, Http(200, Body(JNum(400), RString))}
PollReplies == {NetFail, St(Pending), St(Confirmed)}
\* {"Result": 200, "Response": "Transaction Not Found"}
TransactionNotFound == Http(200, Body(JNum(200), RString))

BlockInputs == {"", "x", "1"}

\* The timeout and interval, in seconds, a polling call is given.
PollTimings ==
    {[timeoutSec |-> 0, intervalSec |-> 1],
     [timeoutSec |-> MaxPolls, intervalSec |-> 1],
     [timeoutSec |-> 1, intervalSec |-> 0]}

----------------------------------------------------------------------------
(* State machine                                                           *)

NoReply == [net |-> "none", status |-> 0, body |-> JunkBody]

\* The polling call in progress, if any: where its loop is (pc), the timeout
\* and interval it was given, the whole seconds gone since it began (now),
\* when its sleep ends (wake), whether the ticker's channel holds a tick,
\* the number of queries started, whether one of them was started more than
\* timeoutSec seconds into the call (late), the latest answer, whether
\* every answer before the latest was "Pending" (early), whether an answer
\* before the latest was "Transaction Not Found" (notFound), when the latest
\* query was started (started, -1 for never), and whether a query was
\* started less than a full interval, or no time at all, after the start of
\* the one before (hasty).
NoPoll ==
    [pc |-> "idle", timeoutSec |-> 0, intervalSec |-> 0, now |-> 0, wake |-> 0,
     tick |-> FALSE, queries |-> 0, late |-> FALSE, answer |-> NoReply,
     early |-> TRUE, notFound |-> FALSE, started |-> -1, hasty |-> FALSE]

\* The hex conversions under test: the package they come from, the text x,
\* its encoding, the decoding of that, and how far the round trip has gone.
NoCodec == [pkg |-> "none", x |-> <<>>, hex |-> <<>>, back |-> <<>>, step |-> "none"]

\* What the last completed call was and gave back.
\* No certificate yet.  Of a certificate the model keeps the package it is
\* of, its four fields (c), the latest serialization (json), the field
\* values that one was made from (of), and the same for the serialization
\* before it (prev, prevOf).  A serialization is the sequence of the
\* members of the JSON object, each a key with its value.
NoCert ==
    LET empty == [Data |-> <<>>, PreviousTxID |-> <<>>, PreviousBlock |-> <<>>,
                  Version |-> <<>>]
    IN  [pkg |-> "none", c |-> empty, json |-> <<>>, of |-> empty,
         prev |-> <<>>, prevOf |-> empty]

\* GetJSONCertificate as it would be if the members of the map were written
\* in the order the map happens to be iterated in.
Mut_MarshalCertificate_IterationOrder(pkg, c, iter) ==
    LET keys == <<<<"d", "a", "t", "a">>,
                  <<"p", "r", "e", "v", "i", "o", "u", "s", "T", "x", "I", "D">>,
                  <<"p", "r", "e", "v", "i", "o", "u", "s", "B", "l", "o", "c", "k">>,
                  <<"v", "e", "r", "s", "i", "o", "n">>>>
        values == <<c.Data, c.PreviousTxID, c.PreviousBlock, c.Version>>
    IN  [i \in 1..4 |-> <<keys[iter[i]], values[iter[i]]>>]

\* GetJSONCertificate.  Packages circular_enterprise_apis ("pkg") and
\* ccertificate ("models") fill a map with the four members and hand it to
\* json.Marshal, which writes the members of a map sorted by key, compared
\* byte by byte, whatever order the map is iterated in (iter, an order of
\* the four members).  Package circular hands the struct to json.Marshal,
\* which writes the fields in the order of their declaration.
MarshalCertificate(pkg, c, iter) ==
    LET keys == <<<<"d", "a", "t", "a">>,
                  <<"p", "r", "e", "v", "i", "o", "u", "s", "T", "x", "I", "D">>,
                  <<"p", "r", "e", "v", "i", "o", "u", "s", "B", "l", "o", "c", "k">>,
                  <<"v", "e", "r", "s", "i", "o", "n">>>>
        values == <<c.Data, c.PreviousTxID, c.PreviousBlock, c.Version>>
        HexSeq == <<"0", "1", "2", "3", "4", "5", "6", "7", "8", "9",
                    "A", "B", "C", "D", "E", "F">>
        HexVal(d) == CHOOSE n \in 0..15 : HexSeq[n + 1] = d
        Byte(ch) == 16 * HexVal(AsciiHex[ch][1]) + HexVal(AsciiHex[ch][2])
        Less(s, t) ==
            \E i \in 1..Len(t) :
                /\ \A j \in 1..(i - 1) : j <= Len(s) /\ s[j] = t[j]
                /\ (i > Len(s) \/ (i <= Len(s) /\ Byte(s[i]) < Byte(t[i])))
        members == {iter[i] : i \in 1..4}
        rank(k) == 1 + Cardinality({m \in members : Less(keys[m], keys[k])})
        sorted == [r \in 1..4 |-> CHOOSE k \in members : rank(k) = r]
        order == IF pkg = "circular" THEN <<1, 2, 3, 4>> ELSE sorted
    IN  [i \in 1..4 |-> <<keys[order[i]], values[order[i]]>>]

Call(op, r, req, reply) ==
    [op |-> op, ok |-> r.ok, err |-> r.err, res |-> r.res, req |-> req,
     reply |-> reply]

Init ==
    /\ impl \in Impls
    /\ acc = NewCEPAccount(impl)
    /\ last = Call("NewCEPAccount", Ret(acc, TRUE, "novalue", FALSE), NoReq, NoReply)
    /\ pc = [t \in Threads |-> "idle"]
    /\ inflight = [t \in Threads |-> NoReq]
    /\ loaded = [t \in Threads |-> 0]
    /\ arg = <<>>
    /\ poll = NoPoll
    /\ codec = NoCodec
    /\ cert = NoCert

\* No SubmitCertificate call is in progress on another goroutine.
Quiet == \A t \in Threads : pc[t] = "idle"

\* A call that was handed the text a (an address, a private key) returns r:
\* the account is as the call left it.  (The result is bound by \E so that it
\* is computed once.)
DoneWith(op, r, req, reply, a) ==
    \E ret \in {r} :
        /\ acc' = ret.acc
        /\ last' = Call(op, ret, req, reply)
        /\ arg' = a
        /\ UNCHANGED <<impl, codec, cert, pc, inflight, loaded, poll>>

\* A call whose text arguments the model does not keep returns r.
Done(op, r, req, reply) == DoneWith(op, r, req, reply, <<>>)

OpenOf(i, a, address) ==
    CASE i = "root" -> Root_Open(a, address)
      [] i = "services" -> Services_Open(a, address)
      [] i = "lib" -> Lib_Open(a, address)

Open ==
    /\ Quiet
    /\ \E address \in AddressInputs :
          DoneWith("Open", OpenOf(impl, acc, address), NoReq, NoReply, address)

CloseOf(i, a) ==
    CASE i = "root" -> Root_Close(a)
      [] i = "services" -> Services_Close(a)
      [] i = "lib" -> Lib_Close(a)

Close ==
    /\ Quiet
    /\ Done("Close", CloseOf(impl, acc), NoReq, NoReply)

SetBlockchain ==
    /\ Quiet
    /\ impl \in {"root", "lib"}
    /\ Done("SetBlockchain",
            IF impl = "root" THEN Root_SetBlockchain(acc, MockChain)
                             ELSE Lib_SetBlockchain(acc, MockChain),
            NoReq, NoReply)

SetData ==
    /\ Quiet
    /\ impl \in {"services", "lib"}
    /\ Done("SetData",
            IF impl = "services" THEN Services_SetData(acc, "k")
                                 ELSE Lib_SetData(acc, "k"),
            NoReq, NoReply)

UpdateAccountOf(i, a, nagURL, reply) ==
    CASE i = "root" -> Root_UpdateAccount(a, reply)
      [] i = "services" -> Services_UpdateAccount(a, nagURL, reply)
      [] i = "lib" -> Lib_UpdateAccount(a, reply)

\* The gateway URL an UpdateAccount call posts to, and whether the call gets
\* as far as posting.
UpdateAccountURL(i, a, nagURL) == IF i = "services" THEN nagURL ELSE a.NAGURL
UpdateAccountSends(i, a) == i = "root" => a.Address # <<>>

UpdateAccount ==
    /\ Quiet
    /\ \E nagURL \in NagInputs :
          /\ impl # "services" => nagURL = MockNAG
          /\ \E h \in {IF UpdateAccountSends(impl, acc)
                        THEN Transport(UpdateAccountURL(impl, acc, nagURL), reply)
                        ELSE NoReply : reply \in NonceReplies} :
                Done("UpdateAccount", UpdateAccountOf(impl, acc, nagURL, h),
                     NoReq, h)

SubmitBuildOf(i, a, data, key, nagURL, blockchain, timestamp) ==
    CASE i = "root" -> Root_SubmitBuild(a, data, key, timestamp)
      [] i = "services" -> Services_SubmitBuild(a, data, key, nagURL, blockchain, timestamp)
      [] i = "lib" -> Lib_SubmitBuild(a, data, key, timestamp)

SubmitFinishOf(i, a, req, reply) ==
    CASE i = "root" -> Root_SubmitFinish(a, req, reply)
      [] i = "services" -> Services_SubmitFinish(a, req, reply)
      [] i = "lib" -> Lib_SubmitFinish(a, req, reply)

\* One whole SubmitCertificate call made while no other call is running.
SubmitCertificate ==
    /\ Quiet
    /\ acc.Nonce < MaxNonce
    /\ \E data \in DataInputs, key \in KeyInputs, nagURL \in NagInputs :
          /\ impl # "services" => nagURL = MockNAG
          /\ \E b \in {SubmitBuildOf(impl, acc, data, key, nagURL, MockChain, ts) :
                          ts \in Timestamps} :
                IF b.failed
                THEN DoneWith("SubmitCertificate", Ret(b.acc, FALSE, b.err, FALSE),
                              NoReq, NoReply, key)
                ELSE \E h \in {Transport(b.req.nagURL, reply) : reply \in SubmitReplies} :
                        DoneWith("SubmitCertificate",
                                 SubmitFinishOf(impl, b.acc, b.req, h), b.req, h, key)

GetTransaction ==
    /\ Quiet
    /\ impl \in {"root", "services"}
    /\ \E blockID \in BlockInputs, nagURL \in NagInputs :
          IF impl = "root"
          THEN /\ nagURL = MockNAG
               /\ \E h \in {IF blockID = "1" THEN Transport(acc.NAGURL, reply)
                                              ELSE NoReply : reply \in QueryReplies} :
                     Done("GetTransaction",
                          Root_GetTransaction(acc, blockID, TxA, h), NoReq, h)
          ELSE /\ blockID = "1"
               /\ \E h \in {Transport(nagURL, reply) : reply \in QueryReplies} :
                     Done("GetTransaction",
                          Services_GetTransaction(acc, blockID, TxA, nagURL, h),
                          NoReq, h)

\* The ticker of the root package starts its n-th query n intervals after the
\* call; the query is made if the deadline has not been seen to pass first.
Root_CanPoll(a, tm, n) ==
    IF a.NAGURL = "" \/ tm.intervalSec <= 0 THEN n = 0
    ELSE n * tm.intervalSec <= tm.timeoutSec

\* The loops of the other packages query first and sleep afterwards; they go
\* round again while the elapsed time does not exceed the timeout.
Wait_CanPoll(tm, n) ==
    /\ n >= 1
    /\ n >= 2 => (n - 2) * tm.intervalSec <= tm.timeoutSec

\* GetTransactionOutcome polls in the root package and is one query in the
\* other two.
GetTransactionOutcome ==
    /\ Quiet
    /\ IF impl = "root"
       THEN \E tm \in PollTimings, n \in 0..MaxPolls :
               /\ Root_CanPoll(acc, tm, n)
               /\ \E replies \in [1..n -> PollReplies] :
                     Done("GetTransactionOutcome",
                          Root_GetTransactionOutcome(acc, TxA, tm.timeoutSec,
                                                     tm.intervalSec, replies),
                          NoReq, NoReply)
       ELSE \E nagURL \in NagInputs :
               /\ impl = "lib" => nagURL = MockNAG
               /\ \E h \in {Transport(IF impl = "lib" THEN acc.NAGURL ELSE nagURL, reply) :
                               reply \in QueryReplies} :
                     Done("GetTransactionOutcome",
                          IF impl = "services"
                          THEN Services_GetTransactionOutcome(acc, TxA, nagURL, h)
                          ELSE Lib_GetTransactionOutcome(acc, TxA, h),
                          NoReq, h)

WaitForTransactionOutcome ==
    /\ Quiet
    /\ impl \in {"services", "lib"}
    /\ \E n \in 1..MaxPolls, nagURL \in NagInputs :
          /\ {tm \in PollTimings : Wait_CanPoll(tm, n)} # {}
          /\ impl = "lib" => nagURL = MockNAG
          /\ \E replies \in [1..n -> PollReplies] :
                /\ (impl = "services" /\ nagURL = "") => replies = <<NetFail>>
                /\ Done("WaitForTransactionOutcome",
                        IF impl = "services"
                        THEN Services_WaitForTransactionOutcome(acc, TxA, nagURL, replies)
                        ELSE Lib_WaitForTransactionOutcome(acc, TxA, replies),
                        NoReq, NoReply)

Next ==
    \/ Open
    \/ Close
    \/ SetBlockchain
    \/ SetData
    \/ UpdateAccount
    \/ SubmitCertificate
    \/ GetTransaction
    \/ GetTransactionOutcome
    \/ WaitForTransactionOutcome

Spec == Init /\ [][Next]_vars

----------------------------------------------------------------------------
(* SubmitCertificate called from several goroutines                        *)

\* No implementation holds a lock: a call reads the account when it builds
\* its request, and writes it when the answer has come.  The increment of the
\* nonce is a read followed by a write.

\* The answers considered here: no answer, a rejection, an acceptance.
ConcReplies ==
    {NetFail, Http(200, Body(JNum(500), RString)),
     Http(200, Body(JNum(200), RObject(JAbsent, JStr(TxA), JAbsent, JStr(Msg))))}

\* Goroutine t enters SubmitCertificate and builds its request.
SubmitBegin(t) ==
    /\ pc[t] = "idle"
    /\ acc.Nonce < MaxNonce
    /\ \E data \in DataInputs, key \in {MockPrivateKey}, ts \in Timestamps :
          \E b \in {SubmitBuildOf(impl, acc, data, key, MockNAG, MockChain, ts)} :
             /\ acc' = b.acc
             /\ IF b.failed
                THEN /\ last' = Call("SubmitCertificate",
                                      Ret(b.acc, FALSE, b.err, FALSE), NoReq, NoReply)
                     /\ UNCHANGED <<pc, inflight>>
                ELSE /\ pc' = [pc EXCEPT ![t] = "sent"]
                     /\ inflight' = [inflight EXCEPT ![t] = b.req]
                     /\ UNCHANGED last
             /\ UNCHANGED <<impl, codec, cert, loaded, arg, poll>>

\* The handling of an answer as it would be if a submission that failed were
\* posted again: the goroutine goes on waiting, for the answer to its second
\* attempt.
Mut_SubmitEnd_RetriesOnFailure(t) ==
    /\ pc[t] = "sent"
    /\ \E reply \in ConcReplies :
          \E r \in {SubmitFinishOf(impl, acc, inflight[t],
                                   Transport(inflight[t].nagURL, reply))} :
             /\ acc' = [r.acc EXCEPT !.Nonce = acc.Nonce]
             /\ last' = Call("SubmitCertificate", r, NoReq, NoReply)
             /\ IF ~r.ok
                THEN UNCHANGED <<pc, inflight, loaded>>
                ELSE IF r.acc.Nonce # acc.Nonce
                THEN /\ pc' = [pc EXCEPT ![t] = "store"]
                     /\ loaded' = [loaded EXCEPT ![t] = acc.Nonce]
                     /\ UNCHANGED inflight
                ELSE /\ pc' = [pc EXCEPT ![t] = "idle"]
                     /\ inflight' = [inflight EXCEPT ![t] = NoReq]
                     /\ UNCHANGED loaded
             /\ UNCHANGED <<impl, codec, cert, arg, poll>>

\* The answer to goroutine t's request arrives and is handled up to the read
\* of the nonce that starts the increment.
SubmitEnd(t) ==
    /\ pc[t] = "sent"
    /\ \E reply \in ConcReplies :
          \E r \in {SubmitFinishOf(impl, acc, inflight[t],
                                   Transport(inflight[t].nagURL, reply))} :
             /\ acc' = [r.acc EXCEPT !.Nonce = acc.Nonce]
             /\ last' = Call("SubmitCertificate", r, NoReq, NoReply)
             /\ IF r.acc.Nonce # acc.Nonce
                THEN /\ pc' = [pc EXCEPT ![t] = "store"]
                     /\ loaded' = [loaded EXCEPT ![t] = acc.Nonce]
                     /\ UNCHANGED inflight
                ELSE /\ pc' = [pc EXCEPT ![t] = "idle"]
                     /\ inflight' = [inflight EXCEPT ![t] = NoReq]
                     /\ UNCHANGED loaded
             /\ UNCHANGED <<impl, codec, cert, arg, poll>>

\* Goroutine t writes the incremented nonce and returns.
SubmitStore(t) ==
    /\ pc[t] = "store"
    /\ acc' = [acc EXCEPT !.Nonce = loaded[t] + 1]
    /\ pc' = [pc EXCEPT ![t] = "idle"]
    /\ inflight' = [inflight EXCEPT ![t] = NoReq]
    /\ loaded' = [loaded EXCEPT ![t] = 0]
    /\ UNCHANGED <<impl, codec, cert, last, arg, poll>>

Begin == \E t \in Threads : SubmitBegin(t)
End == \E t \in Threads : SubmitEnd(t)
Store == \E t \in Threads : SubmitStore(t)

\* The account is opened before the goroutines start.
OpenMock ==
    /\ Quiet
    /\ acc.Address = <<>>
    /\ Done("Open", OpenOf(impl, acc, MockAddress), NoReq, NoReply)

NextConc ==
    \/ OpenMock
    \/ Begin
    \/ End
    \/ Store

SpecConc == Init /\ [][NextConc]_vars

----------------------------------------------------------------------------
(* The polling loop, step by step                                          *)

\* Time is counted in whole seconds from the start of the call: poll.now is
\* the number of seconds that have gone by in full.  The steps of the program
\* take no time of their own; time passes while a request is in flight,
\* while the loop sleeps, and while select waits.
MaxClock == MaxTimeout + MaxInterval

\* The name under which the package exports its polling call.
WaitOp == IF impl = "root" THEN "GetTransactionOutcome" ELSE "WaitForTransactionOutcome"

\* The polling call returns ret.
PollDone(p, ret) ==
    /\ poll' = [p EXCEPT !.pc = "done"]
    /\ acc' = ret.acc
    /\ last' = Call(WaitOp, ret, NoReq, p.answer)

\* What one turn of the loop does with the answer to its query: the call
\* returns (over), or the loop goes round again.  expired: the time since the
\* start of the call exceeds the timeout.
PollStep(i, a, nagURL, reply, expired) ==
    CASE i = "root" ->
           LET q == Root_getTransactionByID(a, reply)
           IN IF ~q.err /\ Root_Finalized(q.data)
              THEN [over |-> TRUE, ret |-> Ret(a, TRUE, "novalue", TRUE)]
              ELSE [over |-> FALSE, ret |-> Ret(a, FALSE, "novalue", FALSE)]
      [] i = "services" ->
           LET q == Services_GetTransactionOutcome(a, TxA, nagURL, reply)
           IN IF ~q.ok
              THEN [over |-> TRUE, ret |-> Ret(q.acc, FALSE, Wrapped(q.err), FALSE)]
              ELSE IF StatusIn(Transport(nagURL, reply).body, {Confirmed, Failed, Success})
                   THEN [over |-> TRUE, ret |-> Ret(q.acc, TRUE, "nil", TRUE)]
              ELSE IF expired
                   THEN [over |-> TRUE,
                         ret |-> Ret([q.acc EXCEPT !.LastError =
                                         Text("Timeout waiting for transaction outcome")],
                                     FALSE, "untyped", FALSE)]
              ELSE [over |-> FALSE, ret |-> Ret(q.acc, FALSE, "nil", FALSE)]
      [] i = "lib" ->
           LET q == Lib_GetTransactionOutcome(a, TxA, reply)
           IN IF q.ok /\ StatusIn(Transport(a.NAGURL, reply).body, {Confirmed, Failed})
              THEN [over |-> TRUE, ret |-> Ret(q.acc, TRUE, "nil", TRUE)]
              ELSE IF expired
                   THEN [over |-> TRUE,
                         ret |-> Ret([q.acc EXCEPT !.LastError =
                                         Text("Timeout waiting for transaction outcome")],
                                     FALSE, "untyped", FALSE)]
              ELSE [over |-> FALSE, ret |-> Ret(q.acc, FALSE, "nil", FALSE)]

\* The polling call is made.  The root package sets up its deadline and its
\* ticker and waits in select; the other two start their first query at
\* once.  Package cepaccount takes the interval from the account.
WaitBegin ==
    /\ poll.pc \in {"idle", "done"}
    /\ \E timeoutSec \in 0..MaxTimeout, iv \in 0..MaxInterval :
          LET intervalSec == IF impl = "lib" THEN acc.IntervalSec ELSE iv
              p == [NoPoll EXCEPT !.timeoutSec = timeoutSec,
                                  !.intervalSec = intervalSec]
          IN  IF impl = "root" /\ acc.NAGURL = ""
              THEN PollDone(p, Ret([acc EXCEPT !.LastError = Text("network is not set")],
                                   FALSE, "novalue", FALSE))
              ELSE IF impl = "root" /\ intervalSec <= 0
                   THEN PollDone(p, Ret(acc, FALSE, "panic", FALSE))
              ELSE /\ poll' = IF impl = "root"
                              THEN [p EXCEPT !.pc = "select"]
                              ELSE [p EXCEPT !.pc = "query", !.queries = 1,
                                             !.started = 0]
                   /\ UNCHANGED <<acc, last>>
    /\ UNCHANGED <<impl, codec, cert, arg, pc, inflight, loaded>>

\* A second goes by.  The ticker of the root package puts a tick into its
\* channel (which holds one) every intervalSec seconds.
Tick ==
    /\ poll.now < MaxClock
    /\ \/ poll.pc = "query"
       \/ poll.pc = "sleep" /\ poll.now < poll.wake
       \/ poll.pc = "select" /\ ~poll.tick /\ poll.now < poll.timeoutSec
    /\ poll' = [poll EXCEPT !.now = @ + 1,
                            !.tick = @ \/ (impl = "root"
                                             /\ (poll.now + 1) % poll.intervalSec = 0)]
    /\ UNCHANGED <<impl, codec, cert, acc, last, arg, pc, inflight, loaded>>

\* A status query is started: select takes the tick, or the sleep is over.
StartQuery ==
    /\ \/ poll.pc = "select" /\ poll.tick
       \/ poll.pc = "sleep" /\ poll.now >= poll.wake
    /\ poll' = [poll EXCEPT !.pc = "query", !.tick = FALSE,
                            !.queries = IF @ < MaxQueries THEN @ + 1 ELSE @,
                            !.late = @ \/ poll.now > poll.timeoutSec,
                            !.started = poll.now,
                            !.hasty = @ \/ (/\ poll.started >= 0
                                            /\ \/ poll.now - poll.started < poll.intervalSec
                                               \/ poll.now = poll.started)]
    /\ UNCHANGED <<impl, codec, cert, acc, last, arg, pc, inflight, loaded>>

\* select of the root package takes the end of the deadline.
RootTimeout ==
    /\ poll.pc = "select"
    /\ poll.now >= poll.timeoutSec
    /\ PollDone(poll, Ret([acc EXCEPT !.LastError =
                               Text("timeout exceeded while waiting for transaction outcome")],
                          FALSE, "novalue", FALSE))
    /\ UNCHANGED <<impl, codec, cert, arg, pc, inflight, loaded>>

\* The answer to the query in flight arrives and the loop acts on it.
QueryReturn ==
    /\ poll.pc = "query"
    /\ \E reply \in PollReplies \cup {St(Executed), TransactionNotFound} :
          \E s \in {PollStep(impl, acc, MockNAG, reply, poll.now >= poll.timeoutSec)} :
             LET p == [poll EXCEPT !.answer = reply,
                                   !.early = @ /\ poll.answer \in {NoReply, St(Pending)},
                                   !.notFound = @ \/ poll.answer = TransactionNotFound]
             IN  IF s.over
                 THEN PollDone(p, s.ret)
                 ELSE /\ poll' = [p EXCEPT !.pc = IF impl = "root" THEN "select" ELSE "sleep",
                                           !.wake = poll.now + poll.intervalSec]
                      /\ acc' = s.ret.acc
                      /\ UNCHANGED last
    /\ UNCHANGED <<impl, codec, cert, arg, pc, inflight, loaded>>

NextPoll ==
    \/ WaitBegin
    \/ Tick
    \/ StartQuery
    \/ RootTimeout
    \/ QueryReturn

\* Every request is answered in the end and every ready step of the loop is
\* taken; time does not stand still for ever; select, which chooses at random
\* among the ready cases, does not pass over the deadline for ever.
SpecPoll ==
    /\ Init
    /\ [][NextPoll]_vars
    /\ WF_vars(StartQuery) /\ WF_vars(QueryReturn)
    /\ SF_vars(RootTimeout) /\ SF_vars(Tick)

----------------------------------------------------------------------------
(* The hex conversions                                                     *)

\* The texts of at most MaxTextLen characters over a letter, a line feed and
\* the NUL character.
Texts == UNION {[1..n -> {"a", "\n", NUL}] : n \in 0..MaxTextLen}

\* A text is handed to the conversions of package utils or of package
\* circular.
InitHex ==
    /\ impl \in Impls
    /\ acc = NewCEPAccount(impl)
    /\ last = Call("NewCEPAccount", Ret(acc, TRUE, "novalue", FALSE), NoReq, NoReply)
    /\ pc = [t \in Threads |-> "idle"]
    /\ inflight = [t \in Threads |-> NoReq]
    /\ loaded = [t \in Threads |-> 0]
    /\ arg = <<>>
    /\ poll = NoPoll
    /\ \E pkg \in {"utils", "circular"}, x \in Texts :
          codec = [NoCodec EXCEPT !.pkg = pkg, !.x = x, !.step = "input"]
    /\ cert = NoCert

Encode ==
    /\ codec.step = "input"
    /\ codec' = [codec EXCEPT !.step = "encoded",
                              !.hex = IF codec.pkg = "utils" THEN StringToHex(codec.x)
                                                             ELSE stringToHex(codec.x)]
    /\ UNCHANGED <<impl, acc, last, arg, pc, inflight, loaded, poll, cert>>

Decode ==
    /\ codec.step = "encoded"
    /\ codec' = [codec EXCEPT !.step = "decoded",
                              !.back = IF codec.pkg = "utils" THEN HexToString(codec.hex)
                                                              ELSE hexToString(codec.hex)]
    /\ UNCHANGED <<impl, acc, last, arg, pc, inflight, loaded, poll, cert>>

\* Hex strings as a caller may hand them to the decoders: up to two pairs of
\* characters, each a letter, a line feed, a NUL or no hex at all, with or
\* without a 0x prefix and with or without a stray last digit.
HexInputs ==
    LET HexPairs == {<<"6", "1">>, <<"0", "A">>, <<"0", "0">>, <<"6", "z">>, <<"z", "z">>}
        bodies == {<<>>} \cup HexPairs \cup {p \o q : p \in HexPairs, q \in HexPairs}
    IN  {pre \o b \o post : pre \in {<<>>, <<"0", "x">>}, b \in bodies, post \in {<<>>, <<"6">>}}

\* hex.DecodeString accepts h after the 0x prefix is dropped.
WellFormedHex(h0) ==
    ~HexDecode(IF HasPrefix0x(h0) THEN SubSeq(h0, 3, Len(h0)) ELSE h0).err

\* The decoder is called directly on a hex string.
DecodeInput ==
    /\ codec.step = "input"
    /\ codec.x = <<>>
    /\ \E h \in HexInputs :
          codec' = [codec EXCEPT !.step = "parsed",
                                 !.hex = h,
                                 !.back = IF codec.pkg = "utils" THEN HexToString(h)
                                                                 ELSE hexToString(h)]
    /\ UNCHANGED <<impl, acc, last, arg, pc, inflight, loaded, poll, cert>>

NextHex ==
    \/ Encode
    \/ Decode
    \/ DecodeInput

SpecHex == InitHex /\ [][NextHex]_vars

----------------------------------------------------------------------------
(* The certificate                                                         *)

\* NewCCertificate of one of the three packages: empty fields and the
\* library version.
NewCCertificate ==
    /\ cert = NoCert
    /\ \E pkg \in {"pkg", "models", "circular"} :
          cert' = [NoCert EXCEPT !.pkg = pkg,
                                 !.c.Version = <<IF pkg = "models" THEN LIB_VERSION
                                                                   ELSE LibVersion>>]
    /\ UNCHANGED <<impl, acc, last, arg, pc, inflight, loaded, poll, codec>>

\* SetData stores the hex encoding of the text: upper-case digits in package
\* circular_enterprise_apis, lower-case digits in the other two.
CertSetData ==
    /\ cert.pkg # "none"
    /\ \E data \in DataInputs \cup {<<>>} :
          cert' = [cert EXCEPT !.c.Data = IF cert.pkg = "pkg" THEN StringToHex(data)
                                                            ELSE stringToHex(data)]
    /\ UNCHANGED <<impl, acc, last, arg, pc, inflight, loaded, poll, codec>>

\* SetPreviousTxID / SetPreviousBlock (an assignment to the field in the
\* packages that export it).
CertSetPrevious ==
    /\ cert.pkg # "none"
    /\ \/ \E txID \in {<<>>, TxA} : cert' = [cert EXCEPT !.c.PreviousTxID = txID]
       \/ \E block \in {<<>>, <<"1">>} : cert' = [cert EXCEPT !.c.PreviousBlock = block]
    /\ UNCHANGED <<impl, acc, last, arg, pc, inflight, loaded, poll, codec>>

\* GetJSONCertificate: the runtime iterates the map in an order of its own
\* choosing (four of the orders are tried).
GetJSONCertificate ==
    /\ cert.pkg # "none"
    /\ \E iter \in {<<1, 2, 3, 4>>, <<4, 3, 2, 1>>, <<2, 4, 1, 3>>, <<3, 1, 4, 2>>} :
          cert' = [cert EXCEPT !.json = MarshalCertificate(cert.pkg, cert.c, iter),
                               !.of = cert.c,
                               !.prev = cert.json,
                               !.prevOf = cert.of]
    /\ UNCHANGED <<impl, acc, last, arg, pc, inflight, loaded, poll, codec>>

NextCert ==
    \/ NewCCertificate
    \/ CertSetData
    \/ CertSetPrevious
    \/ GetJSONCertificate

SpecCert == Init /\ [][NextCert]_vars

----------------------------------------------------------------------------
(* Properties                                                              *)

\* The gateway answered the last call with HTTP 200 and a JSON object.
Answered(c) == c.reply.net = "ok" /\ c.reply.status = 200 /\ c.reply.body.json = "object"

\* ... and the Result member of that object is 200.
Answered200(c) == Answered(c) /\ ResultIs200(c.reply.body)

C2_Result200IncrementsNonce ==
    [][(last'.op = "SubmitCertificate" /\ Answered200(last'))
          => acc'.Nonce = acc.Nonce + 1]_vars

\* C3: after a SubmitCertificate call that is answered with Result 200,
\* latestTxID is the transaction ID the client computed and sent.
C3_LatestTxIDIsComputedID ==
    (last.op = "SubmitCertificate" /\ Answered200(last))
        => (last.req.ID # <<>> /\ acc.LatestTxID = last.req.ID)

\* C4 as stated: no operation leaves the nonce lower than it found it.
C4_NonceNeverDecreases == [][acc'.Nonce >= acc.Nonce]_vars

\* C4: the nonce is lowered only by Close and by an UpdateAccount that
\* succeeds; Open, SubmitCertificate, the queries, and an UpdateAccount that
\* fails leave it at least as high as it was.
C4_NonceLoweredOnlyByCloseOrUpdate ==
    [][acc'.Nonce < acc.Nonce
          => (last'.op = "Close" \/ (last'.op = "UpdateAccount" /\ last'.ok))]_vars

\* Open has been called on an account whose nonce is above zero.
C4_Witness == last.op = "Open" /\ last.ok /\ acc.Nonce > 0

\* C5: no two submissions in flight at the same time carry the same nonce.
C5_InFlightNoncesDiffer ==
    \A t1, t2 \in Threads :
        (t1 # t2 /\ pc[t1] = "sent" /\ pc[t2] = "sent")
            => inflight[t1].Nonce # inflight[t2].Nonce

\* The calls that need an open account.
NeedOpen ==
    {"UpdateAccount", "SubmitCertificate", "GetTransaction",
     "GetTransactionOutcome", "WaitForTransactionOutcome"}

\* C6: on a closed account (its address is empty) UpdateAccount,
\* SubmitCertificate, GetTransaction and GetTransactionOutcome fail.  (The
\* claim also names the error, AccountNotOpenError; that no such call
\* succeeds is the least it says.)
C6_ClosedAccountCallsFail ==
    (last.op \in NeedOpen /\ acc.Address = <<>>) => ~last.ok

\* C7: an UpdateAccount answered with Result 200 and Response.Nonce = n
\* leaves the local nonce at n + 1.
C7_UpdateSetsServerNoncePlusOne ==
    (/\ last.op = "UpdateAccount" /\ Answered200(last)
     /\ last.reply.body.Response.kind = "object"
     /\ last.reply.body.Response.Nonce.t = "num")
        => acc.Nonce = last.reply.body.Response.Nonce.n + 1

\* The gateway reported the highest wallet nonce and the call succeeded.
C7_Witness ==
    /\ last.op = "UpdateAccount" /\ last.ok /\ Answered200(last)
    /\ last.reply.body.Response.Nonce.t = "num"
    /\ last.reply.body.Response.Nonce.n = MaxServerNonce
    /\ acc.Nonce = MaxServerNonce + 1

\* The answer has a Result other than 200, or lacks a numeric Nonce.
RejectedOrMalformed(c) ==
    /\ Answered(c)
    /\ \/ ~ResultIs200(c.reply.body)
       \/ c.reply.body.Response.kind # "object"
       \/ c.reply.body.Response.Nonce.t # "num"

\* C8: an UpdateAccount answered with a Result other than 200, or without a
\* numeric Nonce, leaves the nonce as it was and reports a failure.  (The
\* claim also names the error types; the root package returns no errors.)
C8_BadUpdateKeepsNonce ==
    [][(last'.op = "UpdateAccount" /\ RejectedOrMalformed(last'))
          => (acc'.Nonce = acc.Nonce /\ ~last'.ok)]_vars

\* C9: after Close every field has the value it has in a new account.
C9_CloseRestoresDefaults == last.op = "Close" => acc = NewCEPAccount(impl)

HasAddressBody(address) ==
    IsValidAddress(address) \/ IsValidAddress(<<"0", "x">> \o address)

\* C11: Open with an address of invalid format fails and leaves the account
\* as it was; in particular the address set before stays.  (The claim also
\* names the error, InvalidAddressError, and speaks of the whole state; that
\* the call fails and keeps the address is the least it says.)
C11_BadAddressIsRefused ==
    [][(last'.op = "Open" /\ ~HasAddressBody(arg'))
          => (~last'.ok /\ acc'.Address = acc.Address)]_vars

\* C12 as stated: after a successful Open the account holds the address
\* given, and its nonce, latestTxID and data have their default values.
C12_OpenResetsNonceTxIDData ==
    (last.op = "Open" /\ last.ok)
        => (/\ acc.Address = arg /\ acc.Nonce = 0
            /\ acc.LatestTxID = <<>> /\ acc.Data = {})

\* C12: a successful Open stores the address given and changes nothing
\* else; nonce, latestTxID and data keep the values they had.
C12_OpenSetsAddressOnly ==
    [][(last'.op = "Open" /\ last'.ok) => acc' = [acc EXCEPT !.Address = arg']]_vars

\* Open has succeeded on an account that had synchronised its nonce and
\* submitted a certificate before.
C12_Witness ==
    /\ last.op = "Open" /\ last.ok /\ acc.Address = arg
    /\ acc.Nonce > 0 /\ acc.LatestTxID # <<>>

\* C13: Open succeeds exactly when the address, with an optional 0x removed,
\* is forty hex characters.
C13_OpenSucceedsIffFortyHex ==
    last.op = "Open" => (last.ok <=> HasAddressBody(arg))

\* C20: SubmitCertificate with a degenerate or wrongly encoded private key
\* fails, and nothing has been sent to the gateway.
C20_BadKeyIsRefusedBeforeSending ==
    (last.op = "SubmitCertificate" /\ ~IsValidPrivateKey(arg))
        => (~last.ok /\ ~last.req.sent)

\* C19: the transaction ID a submission carries is the hex SHA-256 digest of
\* blockchain, address, address, payload hex, decimal nonce and timestamp,
\* concatenated without separators (prefixes removed as HexFix removes them).
C19_SentIDIsDigestOfInputs ==
    (last.op = "SubmitCertificate" /\ last.req.sent)
        => \E pdata \in DataInputs, ts \in Timestamps :
              last.req.ID =
                  TransactionID(IF impl = "services" THEN MockChain ELSE acc.Blockchain,
                                acc.Address, PayloadHex(pdata), last.req.Nonce, ts)

\* The answer carries a status string other than "Pending".
Terminal(reply) ==
    /\ reply.net = "ok"
    /\ reply.body.Response.Status.t = "string"
    /\ reply.body.Response.Status.s # Pending

\* Every answer the polling call has had so far was "Pending".
AllPending == poll.early /\ poll.answer \in {NoReply, St(Pending)}

\* C14: when every answer before the latest was "Pending" and the latest,
\* arriving before the deadline, carries a terminal status, the call has
\* returned that outcome and started no further query.
C14_ReturnsOnFirstTerminalAnswer ==
    (poll.early /\ Terminal(poll.answer) /\ poll.now < poll.timeoutSec)
        => (poll.pc = "done" /\ last.ok /\ last.res /\ last.reply = poll.answer)

\* C15: a polling call whose every answer is "Pending" comes to an end, and
\* when it has, it has failed with the timeout error, no earlier than
\* timeoutSec seconds after it began.
C15_AllPendingEndsInTimeout ==
    /\ [](poll.pc \in {"select", "query", "sleep"}
            => <>(poll.pc = "done" \/ ~AllPending))
    /\ []((poll.pc = "done" /\ AllPending)
            => (~last.ok /\ last.err # "panic" /\ poll.now >= poll.timeoutSec))

\* C16: once a status query has failed with a network error the call is
\* over and has failed; no further query follows.
C16_QueryErrorEndsTheWait ==
    poll.answer = NetFail => (poll.pc = "done" /\ ~last.ok)

\* C17: no status query is started after the deadline has passed.
C17_NoQueryAfterDeadline == ~poll.late

\* C18: once an answer has carried a status other than "Pending" the call is
\* over and has returned the outcome.
C18_EveryOtherStatusIsTerminal ==
    Terminal(poll.answer) => (poll.pc = "done" /\ last.ok /\ last.res)

\* C21: a GetTransaction call answered with Result 404 and a null Response
\* returns that answer as its result and reports no error.
C21_NotFoundInRangeIsAResult ==
    (last.op = "GetTransaction" /\ last.reply = NotFoundInRange)
        => (last.ok /\ last.res /\ last.err \in {"nil", "novalue"})

\* A lookup on an open account was answered with Result 404.
C21_Witness ==
    /\ last.op = "GetTransaction" /\ last.reply = NotFoundInRange
    /\ last.ok /\ last.res /\ acc.Address # <<>>

\* The submission was answered with HTTP 200 and a JSON object whose Result
\* is not 200.
PartialSuccess(c) ==
    /\ c.op = "SubmitCertificate" /\ c.req.sent
    /\ Answered(c) /\ ~ResultIs200(c.reply.body)

C23_HexRoundTrip == codec.step = "decoded" => codec.back = codec.x

\* C23: for every text x without a NUL character, decoding the encoding of x
\* gives x.  (hexToString of package circular leaves NUL characters out.)
C23_HexRoundTripWithoutNUL ==
    (codec.step = "decoded" /\ \A i \in 1..Len(codec.x) : codec.x[i] # NUL)
        => codec.back = codec.x

\* A text with a line feed, whose hex digits include a letter, has gone
\* through the lower-case conversions of package circular and come back.
C23_Witness ==
    /\ codec.step = "decoded" /\ codec.pkg = "circular"
    /\ codec.x = <<"a", "\n">> /\ codec.hex = <<"6", "1", "0", "a">>
    /\ codec.back = codec.x

\* C24: every successful submission carries the nonce the account had when
\* it was made and leaves the nonce one higher, so that submissions made one
\* after another carry consecutive nonces.
C24_SuccessiveNoncesAreConsecutive ==
    [][(last'.op = "SubmitCertificate" /\ last'.ok)
          => (last'.req.Nonce = acc.Nonce /\ acc'.Nonce = acc.Nonce + 1)]_vars

\* C25: when a goroutine completes a successful submission the nonce becomes
\* one higher than it was just before: no increment is lost.
C25_NoIncrementIsLost ==
    [][\A t \in Threads :
          (pc[t] = "store" /\ pc'[t] = "idle") => acc'.Nonce = acc.Nonce + 1]_vars

\* C26: the certificate of every submission names as previousTxID the
\* latestTxID the account had when the call was made.
C26_PreviousTxIDIsLatestTxID ==
    [][(last'.op = "SubmitCertificate" /\ last'.req.sent)
          => last'.req.PreviousTxID = acc.LatestTxID]_vars

\* The nonce the gateway has confirmed when call c succeeds: the wallet
\* nonce it reported to UpdateAccount (-1 when its answer names none), or the
\* nonce of the submission it accepted.
ServerNonce(c) ==
    IF c.op = "SubmitCertificate" THEN c.req.Nonce
    ELSE IF c.reply.body.Response.kind = "object" /\ c.reply.body.Response.Nonce.t = "num"
         THEN c.reply.body.Response.Nonce.n
         ELSE -1

\* C27: on an open account the nonce is one above the nonce the gateway last
\* confirmed: an UpdateAccount or a submission that succeeds leaves the
\* local nonce one above the nonce the gateway confirmed by it, and every
\* other call, a failed submission included, leaves the local nonce as it
\* was.
C27_NonceIsOneAboveServerNonce ==
    [][acc'.Address # <<>>
          => IF last'.op \in {"UpdateAccount", "SubmitCertificate"} /\ last'.ok
             THEN ServerNonce(last') >= 0 /\ acc'.Nonce = ServerNonce(last') + 1
             ELSE acc.Address # <<>> => acc'.Nonce = acc.Nonce]_vars

\* C28: GetTransaction, GetTransactionOutcome and WaitForTransactionOutcome
\* leave the nonce and latestTxID as they found them, whatever their result.
C28_QueriesKeepNonceAndTxID ==
    [][last'.op \in {"GetTransaction", "GetTransactionOutcome",
                     "WaitForTransactionOutcome"}
          => (acc'.Nonce = acc.Nonce /\ acc'.LatestTxID = acc.LatestTxID)]_vars

\* A wait has timed out on an account that had submitted a certificate.
C28_Witness ==
    /\ impl = "services" /\ last.op = "WaitForTransactionOutcome"
    /\ ~last.ok /\ last.err = "untyped"
    /\ acc.Nonce > 0 /\ acc.LatestTxID # <<>>

\* C29: an answer "Transaction Not Found" ends the wait neither as an
\* outcome nor as an error (the wait ends after it only by the timeout), and
\* a terminal status that arrives after it, before the deadline, is returned
\* as the outcome.
C29_NotFoundIsPolledAgain ==
    /\ (poll.answer = TransactionNotFound /\ poll.pc = "done")
          => (~last.ok /\ poll.now >= poll.timeoutSec)
    /\ (poll.notFound /\ Terminal(poll.answer) /\ poll.now < poll.timeoutSec)
          => (poll.pc = "done" /\ last.ok /\ last.res /\ last.reply = poll.answer)

\* C30: no status query is started less than intervalSec seconds, or no time
\* at all, after the start of the query before it.
C30_FullIntervalBetweenQueries == ~poll.hasty

\* C39: decoding a malformed hex string (odd length, or a character that is
\* no hex digit) gives the empty text, never a part of the text.
C39_MalformedHexDecodesToEmpty ==
    (codec.step = "parsed" /\ ~WellFormedHex(codec.hex)) => codec.back = <<>>

\* C40: the text a hex string decodes to never holds a NUL character,
\* whether the string was produced by the encoder or handed in directly.
C40_DecodedTextHasNoNUL ==
    codec.step \in {"decoded", "parsed"} =>
        \A i \in 1..Len(codec.back) : codec.back[i] # NUL

\* C38: an Open that succeeds right after a Close leaves the account as the
\* same Open leaves a newly created account: same gateway URL, blockchain and
\* poll interval, nonce at its default and no latest transaction ID.
C38_ReopenedIsLikeNew ==
    [][(last.op = "Close" /\ last'.op = "Open" /\ last'.ok) =>
          LET fresh == OpenOf(impl, NewCEPAccount(impl), acc'.Address).acc
          IN  /\ acc'.NAGURL = fresh.NAGURL
              /\ acc'.Blockchain = fresh.Blockchain
              /\ acc'.IntervalSec = fresh.IntervalSec
              /\ acc'.Nonce = fresh.Nonce
              /\ acc'.LatestTxID = fresh.LatestTxID]_vars

\* C34: after an operation that succeeded the last-error text is empty,
\* whatever failed before it.
C34_SuccessLeavesNoLastError ==
    (last.op # "NewCEPAccount" /\ last.ok) => acc.LastError = ""

\* C31: what a submission hands to the signature primitive is the digest
\* bytes of the transaction ID itself: neither a digest of the ID's hex
\* string nor a digest of some other text.
C31_SignatureIsOverIDDigest ==
    (last.op = "SubmitCertificate" /\ last.req.sent) =>
        (last.req.ID # <<>> /\ last.req.SigOver = "ID digest bytes")

\* C33: every failure of the gateway client has one of three types.  A
\* failure of the transport gives a NetworkError, a status outside 200..299
\* an APIError with that status and a message (the body's message member,
\* else its error member, else the generic text), and a body that cannot be
\* decoded an InvalidResponseError.  (The submit path hands the client's
\* error on inside an error of its own.)
C33_ClientErrorsAreTyped ==
    (impl = "services" /\ last.op = "SubmitCertificate" /\ last.req.sent) =>
        LET h == Transport(last.req.nagURL, last.reply)
            p == PostJSON(h)
        IN  /\ h.net # "ok" =>
                  (p.err = "NetworkError" /\ last.err = Wrapped("NetworkError"))
            /\ (h.net = "ok" /\ (h.status < 200 \/ h.status >= 300)) =>
                  /\ p.err = "APIError" /\ last.err = Wrapped("APIError")
                  /\ p.statusCode = h.status
                  /\ p.message = IF h.body.message.t = "string" THEN "message"
                                 ELSE IF h.body.error.t = "string" THEN "error"
                                 ELSE "HTTP status code"
            /\ (h.net = "ok" /\ h.status >= 200 /\ h.status < 300
                    /\ h.body.json # "object") =>
                  (p.err = "nil" /\ last.err = "InvalidResponseError")

C36_RejectedUpdateFailsCleanly ==
    (last.op = "UpdateAccount" /\ Answered(last) /\ last.reply.body.json = "object"
        /\ ~ResultIs200(last.reply.body)) =>
        /\ ~last.ok
        /\ last.err # "panic"
        /\ impl = "services" =>
              last.err \in {"APIError", "InvalidResponseError", "wrapped APIError"}

\* C37: a wait that is given a timeout above zero and an interval of at
\* least one second does not return before it has asked the gateway at least
\* once; in particular it cannot time out without a query.
C37_QueriesBeforeTimeout ==
    (poll.pc = "done" /\ poll.timeoutSec > 0 /\ poll.intervalSec >= 1
        /\ acc.NAGURL # "" /\ last.op = WaitOp) =>
        poll.queries >= 1

====
